---- MODULE Spec2Model ----
(***************************************************************************)
(* Surge / volume anomaly detection and batch ranking of                   *)
(* F415643/surge-analysis-mcp.                                             *)
(*                                                                         *)
(* Numbers.  Prices are integers (a price unit of the model is one tenth   *)
(* of a currency unit: 10.6 is 106), volumes are integers.  Every quotient *)
(* the code computes in floating point is kept as an exact fraction        *)
(* [num, den] with den > 0 and compared by cross multiplication, so the    *)
(* model is the code under exact arithmetic; rounding of binary floating   *)
(* point is not modelled.  A sort key is a fraction with a flag nan; a     *)
(* comparison with a NaN key is false, as in Python.                       *)
(*                                                                         *)
(* Dates are day numbers; the history provider returns bars in strictly    *)
(* ascending date order.                                                   *)
(***************************************************************************)
EXTENDS Integers, Sequences, FiniteSets, TLC

VARIABLES
    \* one analyzer and the providers' answers to it: the last call made on it,
    \* and the call before it when that was a call of the same operation
    hist, info, surge_threshold, volume_threshold, call, prev,
    \* one BatchSurgeAnalyzer: the list of the running (or last) call, the entry
    \* being processed, where the coroutine stands, self.results, the last
    \* summary report, the last returned list, the events of the running (or
    \* last) call, and the number of calls made
    stock_list, pos, bpc, results, report, returned, log, calls,
    \* the requests to the providers and the report generations of the running
    \* (or last) run, and the local state of a run of the compare_stocks tool
    trace, cmp

avars == <<hist, info, surge_threshold, volume_threshold, call, prev>>
bvars == <<stock_list, pos, bpc, results, report, returned, log, calls, trace, cmp>>
vars == <<hist, info, surge_threshold, volume_threshold, call, prev,
          stock_list, pos, bpc, results, report, returned, log, calls, trace, cmp>>

----------------------------------------------------------------------------
(* Bounds of the model and constants of the program *)

\* longest bar series whose closing prices vary
MaxBars == 4
\* longest bar series whose volumes vary
MaxVolBars == 11
\* longest stock list of a batch run, and the number of runs on one instance
MaxList == 3
MaxCalls == 2
\* the number of runs on one instance that are followed to their end under
\* fairness
MaxLiveCalls == 1
\* longest list of summaries a report is generated from
MaxResults == 6

\* the trailing window of _analyze_volume: range(10, ...), volumes[i-10:i], / 10
Window == 10
\* UniversalSurgeAnalyzer.__init__ / CleanSurgeAnalyzer.__init__
DefaultSurgeThreshold == 5
DefaultVolumeThreshold == 2

\* closing prices of the drawn series: 100 -> 105 is exactly +5%, 100 -> 106 is +6%
Closes == {90, 100, 105, 106}
\* volumes of the drawn series: a zero-volume day and an ordinary day
Volumes == {0, 1000}
\* surge thresholds in use: future_value_dexin.py uses 3.0, the analyzers 5.0
SurgeThresholds == {3, DefaultSurgeThreshold}

----------------------------------------------------------------------------
(* Exact fractions and Python's float comparison *)

Rat(n, d) == [nan |-> FALSE, num |-> n, den |-> d]
NaN == [nan |-> TRUE, num |-> 0, den |-> 1]

\* a < b on floats: false as soon as one side is NaN
KeyLt(a, b) == ~a.nan /\ ~b.nan /\ a.num * b.den < b.num * a.den
KeyGt(a, b) == KeyLt(b, a)
KeyEq(a, b) == ~a.nan /\ ~b.nan /\ a.num * b.den = b.num * a.den

Reverse(s) == [k \in 1..Len(s) |-> s[Len(s) + 1 - k]]

RECURSIVE SumSeq(_)
SumSeq(s) == IF s = <<>> THEN 0 ELSE s[1] + SumSeq(Tail(s))

MaxOf(S) == CHOOSE x \in S : \A y \in S : y <= x
MinOf(S) == CHOOSE x \in S : \A y \in S : x <= y

----------------------------------------------------------------------------
(* sorted(xs, key=..., reverse=...) of CPython for lists shorter than 64:  *)
(* the list is reversed when reverse is set, its leading run is found      *)
(* (count_run; a strictly descending run is reversed in place), the rest   *)
(* is inserted by binary insertion (binarysort), and the list is reversed  *)
(* back.  Only `<` on keys is used.  The result is the sequence of the     *)
(* positions of xs in sorted order.                                        *)

RECURSIVE RunAsc(_, _, _)
RunAsc(ks, a, n) ==
    IF n < Len(a) /\ ~KeyLt(ks[a[n + 1]], ks[a[n]]) THEN RunAsc(ks, a, n + 1) ELSE n

RECURSIVE RunDesc(_, _, _)
RunDesc(ks, a, n) ==
    IF n < Len(a) /\ KeyLt(ks[a[n + 1]], ks[a[n]]) THEN RunDesc(ks, a, n + 1) ELSE n

RECURSIVE BSearch(_, _, _, _, _)
BSearch(ks, a, pivot, l, r) ==
    IF l < r
    THEN LET p == l + ((r - l) \div 2)
         IN IF KeyLt(ks[pivot], ks[a[p + 1]])
            THEN BSearch(ks, a, pivot, l, p)
            ELSE BSearch(ks, a, pivot, p + 1, r)
    ELSE l

RECURSIVE BinarySort(_, _, _)
BinarySort(ks, a, start) ==
    IF start >= Len(a) THEN a
    ELSE LET pivot == a[start + 1]
             l == BSearch(ks, a, pivot, 0, start)
         IN BinarySort(ks,
                       SubSeq(a, 1, l) \o <<pivot>> \o SubSeq(a, l + 1, start)
                           \o SubSeq(a, start + 2, Len(a)),
                       start + 1)

PySortPerm(ks, reverse) ==
    LET n == Len(ks)
        idx == [k \in 1..n |-> k]
        a0 == IF reverse THEN Reverse(idx) ELSE idx
        desc == n >= 2 /\ KeyLt(ks[a0[2]], ks[a0[1]])
        run == IF n < 2 THEN n
               ELSE IF desc THEN RunDesc(ks, a0, 2) ELSE RunAsc(ks, a0, 2)
        a1 == IF desc THEN Reverse(SubSeq(a0, 1, run)) \o SubSeq(a0, run + 1, n) ELSE a0
        a2 == BinarySort(ks, a1, run)
    IN IF reverse THEN Reverse(a2) ELSE a2

\* sorted(xs, key=lambda x: keys[x], reverse=reverse), keys given per position
PySorted(xs, ks, reverse) ==
    LET p == PySortPerm(ks, reverse) IN [k \in 1..Len(xs) |-> xs[p[k]]]

----------------------------------------------------------------------------
(* Results and exceptions *)

None == [kind |-> "None"]
Raised(e) == [kind |-> "raise", exc |-> e]

ColCloses(bars) == [k \in 1..Len(bars) |-> bars[k].close]
ColDates(bars) == [k \in 1..Len(bars) |-> bars[k].date]
ColVolumes(bars) == [k \in 1..Len(bars) |-> bars[k].volume]

\* (closes[i] - closes[i-1]) / closes[i-1] * 100, i a position from 2 on
DailyReturn(closes, i) == Rat((closes[i] - closes[i - 1]) * 100, closes[i - 1])

----------------------------------------------------------------------------
(* UniversalSurgeAnalyzer *)

\* pd.Series(closes).pct_change().std() * 100: the sample standard deviation
\* of the day-over-day returns, NaN when fewer than two returns exist.  The
\* square root is not computed: the value is kept as the term std(returns).
Volatility(closes) ==
    IF Len(closes) < 3 THEN NaN
    ELSE [nan |-> FALSE,
          std_of |-> [k \in 1..(Len(closes) - 1) |-> DailyReturn(closes, k + 1)]]

PerformBasicAnalysis(bars) ==
    LET closes == ColCloses(bars)
        current_price == closes[Len(closes)]
        start_price == closes[1]
    IN [current_price |-> current_price,
        start_price |-> start_price,
        total_return |-> Rat((current_price - start_price) * 100, start_price),
        max_price |-> MaxOf({closes[k] : k \in 1..Len(closes)}),
        min_price |-> MinOf({closes[k] : k \in 1..Len(closes)}),
        volatility |-> Volatility(closes)]

\* the inclusion test written with >= instead of >
IsSurgeInclusive(daily_return, threshold) == ~KeyLt(daily_return, Rat(threshold, 1))

\* if daily_return > self.surge_threshold
IsSurge(daily_return, threshold) == KeyGt(daily_return, Rat(threshold, 1))

\* surge_days in the order they are appended (for i in range(1, len(closes)))
SurgeDays(bars, threshold) ==
    LET closes == ColCloses(bars)
        at == SelectSeq([k \in 1..(Len(bars) - 1) |-> k + 1],
                        LAMBDA i : IsSurge(DailyReturn(closes, i), threshold))
    IN [k \in 1..Len(at) |->
            [date |-> bars[at[k]].date,
             return |-> DailyReturn(closes, at[k]),
             price |-> bars[at[k]].close,
             volume |-> bars[at[k]].volume]]

\* if surge_days: surge_days.sort(key=lambda x: x['return'], reverse=True)
\* the list is sorted in place and that same list is returned
AnalyzeSurges(bars, threshold) ==
    LET surge_days == SurgeDays(bars, threshold)
    IN IF surge_days # <<>>
       THEN PySorted(surge_days, [k \in 1..Len(surge_days) |-> surge_days[k].return], TRUE)
       ELSE surge_days

\* avg_vol = sum(volumes[i-10:i]) / 10, i a position from Window + 1 on
TrailingAvg(volumes, i) == Rat(SumSeq(SubSeq(volumes, i - Window, i - 1)), Window)

\* if volumes[i] > avg_vol * self.volume_threshold
IsVolumeSpike(volume, avg_vol, multiplier) ==
    KeyGt(Rat(volume, 1), Rat(avg_vol.num * multiplier, avg_vol.den))

AnalyzeVolume(bars, multiplier) ==
    LET volumes == ColVolumes(bars)
        closes == ColCloses(bars)
        n == Len(volumes)
        total == SumSeq(volumes)
        at == SelectSeq([k \in 1..(IF n > Window THEN n - Window ELSE 0) |-> k + Window],
                        LAMBDA i : IsVolumeSpike(volumes[i], TrailingAvg(volumes, i), multiplier))
        volume_spikes ==
            [k \in 1..Len(at) |->
                [date |-> bars[at[k]].date,
                 \* volumes[i] / avg_vol
                 volume_ratio |-> Rat(volumes[at[k]] * Window,
                                      TrailingAvg(volumes, at[k]).num),
                 return |-> DailyReturn(closes, at[k])]]
    IN IF total = 0
       \* current_volume/avg_volume in the print of the averages
       THEN Raised("ZeroDivisionError")
       ELSE IF \E k \in 1..Len(at) : TrailingAvg(volumes, at[k]).num = 0
       \* volumes[i] / avg_vol with an all-zero window
       THEN Raised("ZeroDivisionError")
       ELSE [kind |-> "value",
             avg_volume |-> Rat(total, n),
             current_volume |-> volumes[n],
             max_volume |-> MaxOf({volumes[k] : k \in 1..n}),
             spikes |-> IF volume_spikes # <<>>
                        THEN PySorted(volume_spikes,
                                      [k \in 1..Len(volume_spikes) |->
                                          volume_spikes[k].volume_ratio], TRUE)
                        ELSE volume_spikes]

\* the four items _get_company_info keeps
KeyItems == {"market_cap", "float_cap", "industry", "shares"}

\* a dict built row by row: a later row of the same item overwrites
RowsToDict(rows, keep) ==
    LET items == {rows[k].item : k \in {j \in 1..Len(rows) : keep[j]}}
    IN [it \in items |->
          rows[MaxOf({j \in 1..Len(rows) : keep[j] /\ rows[j].item = it})].value]

EmptyDict == [it \in {} |-> ""]

\* _get_company_info without its try/except: the provider's error goes on
GetCompanyInfoUncaught(inf) ==
    IF inf.kind = "error" THEN Raised("ProviderError")
    ELSE IF inf.rows = <<>> THEN EmptyDict
    ELSE RowsToDict(inf.rows, [j \in 1..Len(inf.rows) |-> inf.rows[j].item \in KeyItems])

GetCompanyInfo(inf) ==
    IF inf.kind = "error" THEN EmptyDict
    ELSE IF inf.rows = <<>> THEN EmptyDict
    ELSE RowsToDict(inf.rows, [j \in 1..Len(inf.rows) |-> inf.rows[j].item \in KeyItems])

\* the body of analyze_stock inside its try
AnalyzeStockBody(h, inf, threshold, multiplier) ==
    IF h.kind = "error" THEN Raised("ProviderError")
    ELSE IF h.bars = <<>> THEN None
    ELSE LET analysis_result == PerformBasicAnalysis(h.bars)
             surge_analysis == AnalyzeSurges(h.bars, threshold)
             volume_analysis == AnalyzeVolume(h.bars, multiplier)
         IN IF volume_analysis.kind = "raise" THEN volume_analysis
            ELSE [kind |-> "result",
                  basic |-> analysis_result,
                  surges |-> surge_analysis,
                  volume |-> volume_analysis,
                  company |-> GetCompanyInfo(inf)]

\* analyze_stock without its try/except: an error reaches the caller
AnalyzeStockUncaught(h, inf, threshold, multiplier) ==
    AnalyzeStockBody(h, inf, threshold, multiplier)

\* except Exception as e: return None
AnalyzeStock(h, inf, threshold, multiplier) ==
    LET r == AnalyzeStockBody(h, inf, threshold, multiplier)
    IN IF r.kind = "raise" THEN None ELSE r

----------------------------------------------------------------------------
(* CleanSurgeAnalyzer *)

\* hist_df.sort_values('日期')
SortValues(bars) == PySorted(bars, [k \in 1..Len(bars) |-> Rat(bars[k].date, 1)], FALSE)

\* the first row's change taken against the last row, as closes[i - 1] does
\* for i = 0
PctChangeWrap(closes, i) ==
    IF i = 1
    THEN Rat((closes[1] - closes[Len(closes)]) * 100, closes[Len(closes)])
    ELSE DailyReturn(closes, i)

\* hist_df['收盘'].pct_change() * 100: the first row's 涨跌幅 is NaN
PctChange(closes, i) == IF i = 1 THEN NaN ELSE DailyReturn(closes, i)

\* the decimal digits of n as character codes, zero-padded to width / as
\* short as the number allows
Padded(n, width) == [k \in 1..width |-> 48 + ((n \div (10 ^ (width - k))) % 10)]
Unpadded(n) == IF n < 10 THEN Padded(n, 1) ELSE Padded(n, 2)

\* the text of a date without the zero padding of month and day
StrftimeUnpadded(d) == Padded(2026, 4) \o <<45>> \o Unpadded(1) \o <<45>> \o Unpadded(7 + d)

\* row['日期'].strftime('%Y-%m-%d'), the character codes of the text; the
\* bars of the model are dated from 2026-01-08 on, bar d on day 7 + d of
\* January.  A surge keeps the day in its date field, the text is what the
\* list is sorted by.
Strftime(d) == Padded(2026, 4) \o <<45>> \o Padded(1, 2) \o <<45>> \o Padded(7 + d, 2)

\* a < b on str: the first differing character decides, a proper prefix is less
StrLt(a, b) ==
    \/ \E i \in 1..Len(a) :
          /\ i <= Len(b)
          /\ a[i] < b[i]
          /\ \A j \in 1..(i - 1) : a[j] = b[j]
    \/ Len(a) < Len(b) /\ \A j \in 1..Len(a) : a[j] = b[j]

\* the place of the text s in the order of the texts of col, as a sort key
StrKey(s, col) == Rat(Cardinality({k \in 1..Len(col) : StrLt(col[k], s)}), 1)

\* hist_df['涨跌幅'] > self.surge_threshold
CleanIsSurge(pct, threshold) == KeyGt(pct, Rat(threshold, 1))

CleanSurges(df, threshold) ==
    LET closes == ColCloses(df)
        at == SelectSeq([k \in 1..Len(df) |-> k],
                        LAMBDA i : CleanIsSurge(PctChange(closes, i), threshold))
        surges == [k \in 1..Len(at) |->
                      [date |-> df[at[k]].date,
                       return |-> PctChange(closes, at[k]),
                       volume |-> df[at[k]].volume,
                       price |-> df[at[k]].close]]
        texts == [k \in 1..Len(surges) |-> Strftime(surges[k].date)]
    \* surges = sorted(surges, key=lambda x: x['date'], reverse=True)
    IN PySorted(surges, [k \in 1..Len(surges) |-> StrKey(texts[k], texts)], TRUE)

CleanVolumeStats(df, multiplier) ==
    LET volumes == ColVolumes(df)
        n == Len(volumes)
        avg_volume == Rat(SumSeq(volumes), n)
    IN [avg_volume |-> SumSeq(volumes) \div n,
        max_volume |-> MaxOf({volumes[k] : k \in 1..n}),
        spikes |-> Cardinality({k \in 1..n :
                        KeyGt(Rat(volumes[k], 1),
                              Rat(avg_volume.num * multiplier, avg_volume.den))})]

CleanCompanyData(inf) ==
    IF inf.kind = "error" THEN EmptyDict
    ELSE IF inf.rows = <<>> THEN EmptyDict
    ELSE RowsToDict(inf.rows,
                    [j \in 1..Len(inf.rows) |->
                        /\ inf.rows[j].item # "" /\ inf.rows[j].value # ""
                        /\ inf.rows[j].item # "nan" /\ inf.rows[j].value # "nan"])

CleanAnalyzeStockBody(h, inf, threshold, multiplier) ==
    IF h.kind = "error" THEN Raised("ProviderError")
    ELSE IF h.bars = <<>> THEN None
    ELSE LET df == SortValues(h.bars)
             closes == ColCloses(df)
         IN [kind |-> "result",
             basic |-> [current_price |-> closes[Len(closes)],
                        total_return |-> Rat((closes[Len(closes)] - closes[1]) * 100, closes[1]),
                        volatility |-> Volatility(closes),
                        min_price |-> MinOf({closes[k] : k \in 1..Len(closes)}),
                        max_price |-> MaxOf({closes[k] : k \in 1..Len(closes)})],
             surges |-> CleanSurges(df, threshold),
             volume |-> CleanVolumeStats(df, multiplier),
             company |-> CleanCompanyData(inf)]

\* except Exception as e: return None
CleanAnalyzeStock(h, inf, threshold, multiplier) ==
    LET r == CleanAnalyzeStockBody(h, inf, threshold, multiplier)
    IN IF r.kind = "raise" THEN None ELSE r

----------------------------------------------------------------------------
(* BatchSurgeAnalyzer *)

\* max([s['return'] for s in surges]): the first of the largest
RECURSIVE PyMax(_, _)
PyMax(m, rest) ==
    IF rest = <<>> THEN m
    ELSE PyMax(IF KeyLt(m, rest[1]) THEN rest[1] ELSE m, Tail(rest))

\* company.get(key, '未知')
DictGet(d, key, default) == IF key \in DOMAIN d THEN d[key] ELSE default

\* analysis_time, the wall-clock time of the summary, is left out
CreateSummary(symbol, name, result) ==
    [symbol |-> symbol,
     name |-> name,
     current_price |-> result.basic.current_price,
     total_return |-> result.basic.total_return,
     volatility |-> result.basic.volatility,
     surge_count |-> Len(result.surges),
     volume_spike_count |-> Len(result.volume.spikes),
     max_surge |-> IF result.surges # <<>>
                   THEN PyMax(result.surges[1].return,
                              Tail([k \in 1..Len(result.surges) |-> result.surges[k].return]))
                   ELSE Rat(0, 1),
     industry |-> DictGet(result.company, "industry", "unknown"),
     market_cap |-> DictGet(result.company, "market_cap", "unknown")]

\* key=lambda x: x[field], an integer count compared as a number
SortKey(x, field) == IF field = "surge_count" THEN Rat(x[field], 1) ELSE x[field]

\* sorted(xs, key=lambda x: x[field], reverse=True)
SortedDesc(xs, field) == PySorted(xs, [k \in 1..Len(xs) |-> SortKey(xs[k], field)], TRUE)

\* the length of the printed tier lists: [:5]
TierTop == 5

\* xs[:n]
Top(xs, n) == SubSeq(xs, 1, IF Len(xs) < n THEN Len(xs) ELSE n)

RatAdd(a, b) == Rat(a.num * b.den + b.num * a.den, a.den * b.den)

\* x = 0; for s in xs: x += s
RECURSIVE SumRat(_)
SumRat(xs) == IF xs = <<>> THEN Rat(0, 1) ELSE RatAdd(xs[1], SumRat(Tail(xs)))

\* the keys of industry_stats in insertion order
IndustryOrder(rs) ==
    LET first == SelectSeq([k \in 1..Len(rs) |-> k],
                           LAMBDA k : \A j \in 1..(k - 1) : rs[j].industry # rs[k].industry)
    IN [k \in 1..Len(first) |-> rs[first[k]].industry]

\* the sums divided by the number of all summaries instead of the group's
GroupDivisorAll(members, rs) == Len(rs)

\* what each group's sums are divided by: count = industry_stats[industry]['count']
GroupDivisor(members, rs) == Len(members)

\* industry_stats after the averages are computed
IndustryStats(rs) ==
    LET order == IndustryOrder(rs)
    IN [g \in 1..Len(order) |->
          LET members == SelectSeq(rs, LAMBDA s : s.industry = order[g])
              total == SumRat([k \in 1..Len(members) |-> members[k].total_return])
              surges == SumSeq([k \in 1..Len(members) |-> members[k].surge_count])
              count == GroupDivisor(members, rs)
          IN [industry |-> order[g],
              count |-> Len(members),
              avg_return |-> Rat(total.num, total.den * count),
              avg_surge_count |-> Rat(surges, count),
              stocks |-> [k \in 1..Len(members) |-> members[k].name]]]

NoReport == [generated |-> FALSE]

\* _generate_summary_report: what it prints, as the lists it prints from
GenerateSummaryReport(rs) ==
    IF rs = <<>> THEN NoReport
    ELSE [generated |-> TRUE,
          surge_ranking |-> SortedDesc(rs, "surge_count"),
          return_ranking |-> SortedDesc(rs, "total_return"),
          volatility_ranking |-> SortedDesc(rs, "volatility"),
          industry |-> SortedDesc(IndustryStats(rs), "avg_return"),
          high_potential |->
              Top(SortedDesc(SelectSeq(rs, LAMBDA s : s.surge_count >= 5
                                                 /\ KeyGt(s.total_return, Rat(10, 1))),
                             "surge_count"), TierTop),
          stable_stocks |->
              Top(SortedDesc(SelectSeq(rs, LAMBDA s : KeyLt(s.volatility, Rat(3, 1))
                                                 /\ KeyGt(s.total_return, Rat(5, 1))),
                             "total_return"), TierTop),
          high_risk |->
              Top(SortedDesc(SelectSeq(rs, LAMBDA s : KeyGt(s.volatility, Rat(8, 1))
                                                 \/ KeyLt(s.total_return, Rat(0 - 20, 1))),
                             "volatility"), TierTop)]

\* the pause taken after every entry, the last one too
NeedsDelayAlways(i, n) == i <= n

\* if i < len(stock_list): await asyncio.sleep(1)
NeedsDelay(i, n) == i < n

\* the body of the loop after analyze_stock returned r: a result is summarised
\* and appended, None and an exception leave self.results as it is
Collect(rs, entry, r) ==
    IF r.kind = "result" THEN Append(rs, CreateSummary(entry.symbol, entry.name, r)) ELSE rs

----------------------------------------------------------------------------
(* The securities of the batch runs.  What analyze_stock returns for a     *)
(* security is decided by the providers' data: a result (its volatility    *)
(* the value of std(returns), NaN for a history of fewer than three bars)  *)
(* or None (no bars, or an error of the provider).                         *)

Surges(n) ==
    [k \in 1..n |-> [date |-> k + 1, return |-> Rat(6 + k, 1), price |-> 100 + k,
                     volume |-> 1000]]

Analysis(ret, vol, n, company) ==
    [kind |-> "result",
     basic |-> [current_price |-> 100, start_price |-> 100, total_return |-> Rat(ret, 1),
                max_price |-> 100, min_price |-> 100, volatility |-> vol],
     surges |-> Surges(n),
     volume |-> [kind |-> "value", avg_volume |-> Rat(1000, 1), current_volume |-> 1000,
                 max_volume |-> 1000, spikes |-> <<>>],
     company |-> company]

Tech == [it \in {"industry"} |-> "Tech"]
Bank == [it \in {"industry", "market_cap"} |-> IF it = "industry" THEN "Bank" ELSE "1e9"]

Entry(s) == [symbol |-> s, name |-> "n" \o s]

\* analyze_stock(symbol, name, days) of the batch's analyzer
MarketAnalysis(symbol) ==
    CASE symbol = "A" -> Analysis(10, Rat(2, 1), 5, Tech)
      [] symbol = "B" -> Analysis(20, Rat(9, 1), 5, Tech)
      [] symbol = "C" -> Analysis(5, NaN, 0, EmptyDict)
      [] symbol = "D" -> Analysis(0 - 25, NaN, 0, Bank)
      [] symbol = "E" -> Analysis(20, Rat(10, 1), 6, Bank)
      [] OTHER -> None

----------------------------------------------------------------------------
(* The providers' answers and the calls on one analyzer *)

Bar(d, c, v) == [date |-> d, close |-> c, volume |-> v]

\* series whose closing prices vary, on ordinary volume
PriceSeries ==
    UNION {{[k \in 1..n |-> Bar(k, cs[k], 1000)] : cs \in [1..n -> Closes]} : n \in 1..MaxBars}

\* series whose volumes vary, the price going up and down by turns
VolumeSeries ==
    UNION {{[k \in 1..n |-> Bar(k, IF k % 2 = 1 THEN 100 ELSE 105, vs[k])] :
               vs \in [1..n -> Volumes]} : n \in 1..MaxVolBars}

InfoResponses ==
    {[kind |-> "error", rows |-> <<>>],
     [kind |-> "ok", rows |-> <<>>],
     [kind |-> "ok", rows |-> <<[item |-> "industry", value |-> "Tech"],
                                [item |-> "listed", value |-> "nan"]>>],
     [kind |-> "ok", rows |-> <<[item |-> "market_cap", value |-> "1e9"]>>]}

\* no call made on the analyzer yet
NotCalled == [op |-> "none"]

\* the call before this one, when it was a call of the same operation
Before(op) == IF call.op = op THEN call ELSE NotCalled

\* no comparison run yet
NoCompare == [results |-> <<>>, out |-> "none"]

\* BatchSurgeAnalyzer.__init__: self.results = []; nothing called yet
BatchNew ==
    /\ stock_list = <<>>
    /\ pos = 0
    /\ bpc = "idle"
    /\ results = <<>>
    /\ report = NoReport
    /\ returned = None
    /\ log = <<>>
    /\ calls = 0
    /\ trace = <<>>
    /\ cmp = NoCompare

\* an analyzer nothing is asked of
AnalyzerIdle ==
    /\ hist = [kind |-> "bars", bars |-> <<>>]
    /\ info = [kind |-> "ok", rows |-> <<>>]
    /\ surge_threshold = DefaultSurgeThreshold
    /\ volume_threshold = DefaultVolumeThreshold
    /\ call = NotCalled
    /\ prev = NotCalled

\* the history provider fails, returns no bars, or returns a price-varied series
\* (any threshold in use, any answer of the company-info provider), or returns
\* a volume-varied series
AInit ==
    /\ \/ /\ hist \in {[kind |-> "error", bars |-> <<>>], [kind |-> "bars", bars |-> <<>>]}
             \cup {[kind |-> "bars", bars |-> b] : b \in PriceSeries}
          /\ info \in InfoResponses
          /\ surge_threshold \in SurgeThresholds
       \/ /\ hist \in {[kind |-> "bars", bars |-> b] : b \in VolumeSeries}
          /\ info = [kind |-> "ok", rows |-> <<[item |-> "industry", value |-> "Tech"]>>]
          /\ surge_threshold = DefaultSurgeThreshold
    /\ volume_threshold = DefaultVolumeThreshold
    /\ call = NotCalled
    /\ prev = NotCalled
    /\ BatchNew

HasBars == hist.kind = "bars" /\ hist.bars # <<>>

CallAnalyzeSurges ==
    /\ HasBars
    /\ call' = [op |-> "_analyze_surges", ret |-> AnalyzeSurges(hist.bars, surge_threshold)]
    /\ prev' = Before("_analyze_surges")
    /\ UNCHANGED <<hist, info, surge_threshold, volume_threshold>>
    /\ UNCHANGED bvars

CallAnalyzeVolume ==
    /\ HasBars
    /\ call' = [op |-> "_analyze_volume", ret |-> AnalyzeVolume(hist.bars, volume_threshold)]
    /\ prev' = Before("_analyze_volume")
    /\ UNCHANGED <<hist, info, surge_threshold, volume_threshold>>
    /\ UNCHANGED bvars

\* analyze_stock keeping its surge list on the analyzer and appending to it,
\* as the batch analyzer does with self.results
CallAnalyzeStockKeeping ==
    /\ LET r == AnalyzeStock(hist, info, surge_threshold, volume_threshold)
       IN call' = [op |-> "analyze_stock",
                   ret |-> IF r.kind = "result" /\ call.op = "analyze_stock"
                                /\ call.ret.kind = "result"
                           THEN [r EXCEPT !.surges = call.ret.surges \o r.surges]
                           ELSE r]
    /\ prev' = Before("analyze_stock")
    /\ UNCHANGED <<hist, info, surge_threshold, volume_threshold>>
    /\ UNCHANGED bvars

CallAnalyzeStock ==
    /\ call' = [op |-> "analyze_stock",
                ret |-> AnalyzeStock(hist, info, surge_threshold, volume_threshold)]
    /\ prev' = Before("analyze_stock")
    /\ UNCHANGED <<hist, info, surge_threshold, volume_threshold>>
    /\ UNCHANGED bvars

CallCleanAnalyzeStock ==
    /\ call' = [op |-> "clean_analyze_stock",
                ret |-> CleanAnalyzeStock(hist, info, surge_threshold, volume_threshold)]
    /\ prev' = Before("clean_analyze_stock")
    /\ UNCHANGED <<hist, info, surge_threshold, volume_threshold>>
    /\ UNCHANGED bvars

ANext ==
    \/ CallAnalyzeSurges
    \/ CallAnalyzeVolume
    \/ CallAnalyzeStock
    \/ CallCleanAnalyzeStock

Spec == AInit /\ [][ANext]_vars

TypeOK == call.op \in {"none", "_analyze_surges", "_analyze_volume", "analyze_stock",
                       "clean_analyze_stock"}

----------------------------------------------------------------------------
(* The runs of one BatchSurgeAnalyzer.  The coroutine is followed from one  *)
(* wait to the next: the call of analyze_stock (the provider is asked), its *)
(* return, and the end of asyncio.sleep(1).                                 *)

BatchSymbols == {"A", "B", "N"}

StockLists == UNION {[1..n -> {Entry(x) : x \in BatchSymbols}] : n \in 0..MaxList}

Event(e, k) == [ev |-> e, k |-> k]

\* analyze_stock asking the history provider again after its first request
HistFetchesRetry(k) == <<Event("hist", k), Event("hist", k)>>

\* hist_df = ak.stock_zh_a_hist(...): the one request analyze_stock makes for
\* entry k
HistFetches(k) == <<Event("hist", k)>>

\* ak.stock_individual_info_em(symbol=symbol): requested once the bars are
\* analysed, so not when analyze_stock returns None
InfoFetches(k, r) == IF r.kind = "result" THEN <<Event("info", k)>> ELSE <<>>

\* one call of _generate_summary_report
ReportEvent == Event("report", 0)

\* the coroutine hanging where it should report and return
FinishNever(rs) ==
    /\ bpc' = "hung"
    /\ UNCHANGED <<report, returned>>

\* self._generate_summary_report(); return self.results
Finish(rs) ==
    /\ report' = GenerateSummaryReport(rs)
    /\ returned' = rs
    /\ bpc' = "idle"

\* analyze_stock_list(stock_list) is called: with an empty list it reports and
\* returns at once, otherwise the analysis of the first entry starts
CallAnalyzeStockList ==
    /\ bpc = "idle"
    /\ calls < MaxCalls
    /\ \E l \in StockLists :
          /\ stock_list' = l
          /\ calls' = calls + 1
          /\ IF l = <<>>
             THEN /\ Finish(results)
                  /\ pos' = 0
                  /\ log' = <<>>
                  /\ trace' = <<ReportEvent>>
                  /\ UNCHANGED results
             ELSE /\ pos' = 1
                  /\ bpc' = "analyzing"
                  /\ log' = <<Event("start", 1)>>
                  /\ trace' = HistFetches(1)
                  /\ UNCHANGED <<results, report, returned>>
    /\ UNCHANGED cmp
    /\ UNCHANGED avars

\* analyze_stock returns for entry pos: the entry is collected, then the
\* coroutine sleeps, or, after the last entry, reports and returns
AnalysisReturns ==
    /\ bpc = "analyzing"
    /\ LET r == MarketAnalysis(stock_list[pos].symbol)
           rs == Collect(results, stock_list[pos], r)
       IN /\ results' = rs
          /\ log' = Append(log, Event("end", pos))
          /\ IF NeedsDelay(pos, Len(stock_list))
             THEN /\ bpc' = "sleeping"
                  /\ trace' = trace \o InfoFetches(pos, r)
                  /\ UNCHANGED <<report, returned>>
             ELSE /\ Finish(rs)
                  /\ trace' = trace \o InfoFetches(pos, r) \o <<ReportEvent>>
    /\ UNCHANGED <<stock_list, pos, calls, cmp>>
    /\ UNCHANGED avars

\* asyncio.sleep(1) ends: the loop goes on to the next entry, if there is one
SleepReturns ==
    /\ bpc = "sleeping"
    /\ IF pos < Len(stock_list)
       THEN /\ pos' = pos + 1
            /\ bpc' = "analyzing"
            /\ log' = log \o <<Event("delay", pos), Event("start", pos + 1)>>
            /\ trace' = trace \o HistFetches(pos + 1)
            /\ UNCHANGED <<report, returned>>
       ELSE /\ Finish(results)
            /\ log' = Append(log, Event("delay", pos))
            /\ trace' = Append(trace, ReportEvent)
            /\ UNCHANGED pos
    /\ UNCHANGED <<stock_list, results, calls, cmp>>
    /\ UNCHANGED avars

\* the protocol server, which holds no BatchSurgeAnalyzer: nothing requested yet
ServerNew ==
    /\ stock_list = <<>>
    /\ pos = 0
    /\ bpc = "serving"
    /\ results = <<>>
    /\ report = NoReport
    /\ returned = None
    /\ log = <<>>
    /\ calls = 0
    /\ trace = <<>>
    /\ cmp = NoCompare

\* max(xs, key=...): the position of the first of the largest keys, from the
\* candidate m on
RECURSIVE PyArgMax(_, _, _)
PyArgMax(ks, m, k) ==
    IF k > Len(ks) THEN m
    ELSE PyArgMax(ks, IF KeyLt(ks[m], ks[k]) THEN k ELSE m, k + 1)

\* _format_comparison: one row for each item of results, in their order, and
\* the two conclusions
FormatComparison(rs) ==
    LET returns == [k \in 1..Len(rs) |-> rs[k].data.basic.total_return]
        counts == [k \in 1..Len(rs) |-> Rat(Len(rs[k].data.surges), 1)]
    IN [rows |-> [k \in 1..Len(rs) |->
                     [name |-> rs[k].name,
                      symbol |-> rs[k].symbol,
                      total_return |-> rs[k].data.basic.total_return,
                      surges |-> Len(rs[k].data.surges),
                      volatility |-> rs[k].data.basic.volatility]],
        best_return |-> rs[PyArgMax(returns, 1, 2)].name,
        most_surges |-> rs[PyArgMax(counts, 1, 2)].name]

\* the end of _compare_stocks formatting a comparison of a single result
CompareOutputOfOne(rs) ==
    IF Len(rs) < 1
    THEN [results |-> rs, out |-> "insufficient"]
    ELSE [results |-> rs, out |-> "comparison", text |-> FormatComparison(rs)]

\* the end of _compare_stocks: fewer than 2 results are refused with
\* "Comparison failed: Insufficient valid data", otherwise the comparison is
\* formatted
CompareOutput(rs) ==
    IF Len(rs) < 2
    THEN [results |-> rs, out |-> "insufficient"]
    ELSE [results |-> rs, out |-> "comparison", text |-> FormatComparison(rs)]

\* _compare_stocks(args) with args["stocks"] = stocks: fewer than 2 stocks are
\* refused at once with "Error: Need at least 2 stocks for comparison",
\* otherwise a new analyzer analyses the first entry
CompareStocks(stocks) ==
    /\ stock_list' = stocks
    /\ IF Len(stocks) < 2
       THEN /\ cmp' = [results |-> <<>>, out |-> "need_two"]
            /\ pos' = 0
            /\ trace' = <<>>
            /\ UNCHANGED bpc
       ELSE /\ cmp' = [results |-> <<>>, out |-> "none"]
            /\ pos' = 1
            /\ trace' = HistFetches(1)
            /\ bpc' = "comparing"
    /\ UNCHANGED <<results, report, returned, log>>

\* the compare_stocks tool is requested
CallCompareStocks ==
    /\ bpc = "serving"
    /\ \E l \in StockLists : CompareStocks(l)
    /\ UNCHANGED calls
    /\ UNCHANGED avars

\* analyze_stock returns for entry pos of the comparison: a result is kept
\* with its symbol and name; the next entry follows at once, and after the last
\* one the comparison is formatted, or refused for fewer than 2 results
CompareAnalysisReturns ==
    /\ bpc = "comparing"
    /\ LET r == MarketAnalysis(stock_list[pos].symbol)
           rs == IF r.kind = "result"
                 THEN Append(cmp.results, [symbol |-> stock_list[pos].symbol,
                                           name |-> stock_list[pos].name,
                                           data |-> r])
                 ELSE cmp.results
       IN IF pos < Len(stock_list)
          THEN /\ pos' = pos + 1
               /\ cmp' = [cmp EXCEPT !.results = rs]
               /\ trace' = trace \o InfoFetches(pos, r) \o HistFetches(pos + 1)
               /\ UNCHANGED bpc
          ELSE /\ cmp' = CompareOutput(rs)
               /\ trace' = trace \o InfoFetches(pos, r)
               /\ bpc' = "serving"
               /\ UNCHANGED pos
    /\ UNCHANGED <<stock_list, results, report, returned, log, calls>>
    /\ UNCHANGED avars

\* POPULAR_STOCKS and TECH_STOCKS: five securities each, the second of the
\* first list being the first of the second; the securities are taken from the
\* market of the model, where four of the second list have no data
POPULAR_STOCKS == <<Entry("A"), Entry("B"), Entry("C"), Entry("D"), Entry("E")>>
TECH_STOCKS == <<Entry("B"), Entry("T1"), Entry("T2"), Entry("T3"), Entry("T4")>>

\* the arguments of a batch_analyze_stocks request: no preset, each preset,
\* custom without and with a list, and a preset that is none of the three
BatchArguments ==
    {[it \in {} |-> ""], [preset |-> "popular"], [preset |-> "tech"],
     [preset |-> "custom"], [preset |-> "sector"]}
    \cup {[preset |-> "custom", custom_stocks |-> l] : l \in StockLists}

\* _format_batch_analysis(results, preset): the two top-5 rankings and the
\* statistics; the averages divide by len(results)
FormatBatchAnalysis(rs, preset) ==
    LET total_stocks == Len(rs)
        sum == SumRat([k \in 1..Len(rs) |-> rs[k].total_return])
        total_surges == SumSeq([k \in 1..Len(rs) |-> rs[k].surge_count])
    IN IF total_stocks = 0 THEN Raised("ZeroDivisionError")
       ELSE [kind |-> "text",
             preset |-> preset,
             surge_ranking |-> Top(SortedDesc(rs, "surge_count"), 5),
             return_ranking |-> Top(SortedDesc(rs, "total_return"), 5),
             total_stocks |-> total_stocks,
             avg_return |-> Rat(sum.num, sum.den * total_stocks),
             total_surges |-> total_surges,
             avg_surges |-> Rat(total_surges, total_stocks)]

\* what _batch_analyze_stocks returns for the rows rs: the text of the report,
\* or "Batch analysis failed: ..." for an exception of the formatting
FormattedBatch(rs, preset) ==
    LET text == FormatBatchAnalysis(rs, preset)
    IN IF text.kind = "raise"
       THEN [results |-> rs, out |-> "batch_exception", exc |-> text.exc]
       ELSE [results |-> rs, out |-> "batch", text |-> text]

\* the end of _batch_analyze_stocks without its test of an empty result list
BatchOutputUnguarded(rs, preset) == FormattedBatch(rs, preset)

\* the end of _batch_analyze_stocks: if not results: "Batch analysis failed",
\* otherwise the report is formatted
BatchOutput(rs, preset) ==
    IF rs = <<>> THEN [results |-> rs, out |-> "batch_failed"]
    ELSE FormattedBatch(rs, preset)

\* _batch_analyze_stocks(args): the stock list is determined from the preset,
\* a custom preset without a list ("Error: Custom mode requires stock list")
\* and an unknown preset ("Error: Invalid preset type") being refused at once;
\* otherwise a new analyzer analyses the first entry
BatchAnalyzeStocks(args) ==
    LET preset == DictGet(args, "preset", "None")
        custom_stocks == DictGet(args, "custom_stocks", <<>>)
        refused == IF preset \in {"popular", "tech"} THEN "none"
                   ELSE IF preset = "custom"
                   THEN (IF custom_stocks = <<>> THEN "custom_needs_list" ELSE "none")
                   ELSE "invalid_preset"
    IN /\ IF refused # "none"
          THEN /\ cmp' = [results |-> <<>>, out |-> refused]
               /\ stock_list' = <<>>
               /\ pos' = 0
               /\ trace' = <<>>
               /\ UNCHANGED bpc
          ELSE /\ cmp' = [results |-> <<>>, out |-> "none", preset |-> preset]
               /\ stock_list' = (IF preset = "popular" THEN POPULAR_STOCKS
                                 ELSE IF preset = "tech" THEN TECH_STOCKS
                                 ELSE custom_stocks)
               /\ pos' = 1
               /\ trace' = HistFetches(1)
               /\ bpc' = "batching"
       /\ UNCHANGED <<results, report, returned, log>>

\* the batch_analyze_stocks tool is requested
CallBatchAnalyzeStocks ==
    /\ bpc = "serving"
    /\ \E args \in BatchArguments : BatchAnalyzeStocks(args)
    /\ UNCHANGED calls
    /\ UNCHANGED avars

\* analyze_stock returns for entry pos of the tool's batch: a result gives a
\* row; the next entry follows at once, and after the last one the rows are
\* formatted, or the batch has failed for want of any row
ToolBatchAnalysisReturns ==
    /\ bpc = "batching"
    /\ LET r == MarketAnalysis(stock_list[pos].symbol)
           rs == IF r.kind = "result"
                 THEN Append(cmp.results, [symbol |-> stock_list[pos].symbol,
                                           name |-> stock_list[pos].name,
                                           surge_count |-> Len(r.surges),
                                           total_return |-> r.basic.total_return,
                                           volatility |-> r.basic.volatility])
                 ELSE cmp.results
       IN IF pos < Len(stock_list)
          THEN /\ pos' = pos + 1
               /\ cmp' = [cmp EXCEPT !.results = rs]
               /\ trace' = trace \o InfoFetches(pos, r) \o HistFetches(pos + 1)
               /\ UNCHANGED bpc
          ELSE /\ cmp' = BatchOutput(rs, cmp.preset)
               /\ trace' = trace \o InfoFetches(pos, r)
               /\ bpc' = "serving"
               /\ UNCHANGED pos
    /\ UNCHANGED <<stock_list, results, report, returned, log, calls>>
    /\ UNCHANGED avars

\* a BatchSurgeAnalyzer of a script, or the protocol server
BInit == AnalyzerIdle /\ (BatchNew \/ ServerNew)

BNext ==
    \/ CallAnalyzeStockList
    \/ AnalysisReturns
    \/ SleepReturns
    \/ CallCompareStocks
    \/ CompareAnalysisReturns
    \/ CallBatchAnalyzeStocks
    \/ ToolBatchAnalysisReturns

SpecBatch == BInit /\ [][BNext]_vars

\* the step at which the awaited analyze_stock returns, by what it logs: of
\* the steps of BNext only AnalysisReturns is one
AnalysisReturned == bpc = "analyzing" /\ log' = Append(log, Event("end", pos))

\* a call of analyze_stock_list among the first MaxLiveCalls
CallAnalyzeStockListLive == calls < MaxLiveCalls /\ CallAnalyzeStockList

LiveNext ==
    \/ CallAnalyzeStockListLive
    \/ AnalysisReturns
    \/ SleepReturns
    \/ CallCompareStocks
    \/ CompareAnalysisReturns

\* every analysis is taken to return, and the event loop resumes the coroutine
\* when the awaited analysis has returned and when the sleep is over
SpecBatchLive ==
    /\ BInit
    /\ [][LiveNext]_vars
    /\ WF_log(AnalysisReturned)
    /\ WF_vars(SleepReturns)

----------------------------------------------------------------------------
(* The summary report as a function of self.results: any list of summaries *)
(* the runs can have collected.                                            *)

ReportSymbols == {"A", "B", "C", "D", "E"}

Summaries ==
    {CreateSummary(x, Entry(x).name, MarketAnalysis(x)) : x \in ReportSymbols}

RInit ==
    /\ AnalyzerIdle
    /\ stock_list = <<>>
    /\ pos = 0
    /\ bpc = "idle"
    /\ results \in UNION {[1..n -> Summaries] : n \in 0..MaxResults}
    /\ report = NoReport
    /\ returned = None
    /\ log = <<>>
    /\ calls = 0
    /\ trace = <<>>
    /\ cmp = NoCompare

CallGenerateSummaryReport ==
    /\ report' = GenerateSummaryReport(results)
    /\ UNCHANGED <<stock_list, pos, bpc, results, returned, log, calls, trace, cmp>>
    /\ UNCHANGED avars

RNext == CallGenerateSummaryReport

SpecReport == RInit /\ [][RNext]_vars

----------------------------------------------------------------------------
(* The entry points with their parameters: analyze_stock as a script calls  *)
(* it, and the four tools of the protocol server.  A handler that analyses  *)
(* one security is followed in one step; the handlers that loop over a      *)
(* list are followed entry by entry, as above.  The output of a handler is  *)
(* recorded in cmp.out by the kind of text it returns:                      *)
(*   missing_symbol      Error: Missing stock symbol                        *)
(*   no_data             Failed to get data for stock ...                   *)
(*   analysis, summary   the formatted report of one security               *)
(*   need_two            Error: Need at least 2 stocks for comparison       *)
(*   insufficient        Comparison failed: Insufficient valid data         *)
(*   comparison          the formatted comparison                           *)
(*   custom_needs_list   Error: Custom mode requires stock list             *)
(*   invalid_preset      Error: Invalid preset type                         *)
(*   batch_failed        Batch analysis failed                              *)
(*   batch_exception     Batch analysis failed: ...                         *)
(*   batch               the formatted batch report                         *)
(*   unknown_tool        ValueError("Unknown tool: ...") raised             *)

\* longest bar series the history provider holds for the security requested
MaxToolBars == 3

\* 100 -> 104 is +4%, a surge for a threshold of 3 and none for the default
ToolCloses == {90, 100, 104}

ToolSeries ==
    UNION {{[k \in 1..n |-> Bar(k, cs[k], 1000)] : cs \in [1..n -> ToolCloses]} :
              n \in 1..MaxToolBars}

\* what the history provider answers a request for the security with: an
\* error, no bars, or a series
ProviderAnswers ==
    {[kind |-> "error", bars |-> <<>>], [kind |-> "bars", bars |-> <<>>]}
    \cup {[kind |-> "bars", bars |-> b] : b \in ToolSeries}

\* the symbols and the numbers of days analyze_stock is called with
CallSymbols == {"", "A"}
CallDays == {0 - 1, 180}

\* the surge thresholds a get_surge_summary request supplies
SuppliedThresholds == {0, 3}

\* the stock lists of the requests of the list tools
ToolLists ==
    {<<>>, <<Entry("A")>>, <<Entry("N"), Entry("A")>>, <<Entry("N"), Entry("N")>>,
     <<Entry("B"), Entry("A")>>, <<Entry("A"), Entry("N"), Entry("B")>>}

\* the requests: a tool name with its arguments, None for no arguments
ToolRequests ==
    ({"analyze_single_stock"}
        \X {None, [symbol |-> ""], [symbol |-> "A"],
            [symbol |-> "A", name |-> "nA", days |-> 30]})
    \cup ({"get_surge_summary"}
            \X ({None, [symbol |-> "A"], [name |-> "nA", surge_threshold |-> 3]}
                \cup {[symbol |-> "A", surge_threshold |-> t] : t \in SuppliedThresholds}))
    \cup ({"compare_stocks"} \X ({None} \cup {[stocks |-> l] : l \in ToolLists}))
    \cup ({"batch_analyze_stocks"}
            \X ({None, [preset |-> "popular"], [preset |-> "tech"], [preset |-> "custom"],
                 [preset |-> "sector"]}
                \cup {[preset |-> "custom", custom_stocks |-> l] : l \in ToolLists}))
    \cup ({"analyze_stock", ""} \X {None, [symbol |-> "A"]})

\* an analyzer kept by the server and used by every handler
CleanSurgeAnalyzerShared ==
    [surge_threshold |-> surge_threshold, volume_threshold |-> volume_threshold]

\* CleanSurgeAnalyzer(): self.surge_threshold = 5.0; self.volume_threshold = 2.0
CleanSurgeAnalyzerNew ==
    [surge_threshold |-> DefaultSurgeThreshold, volume_threshold |-> DefaultVolumeThreshold]

\* a test that only looks for the key
MissingKey(args, key, empty) == key \notin DOMAIN args

\* not args.get(key): the key is missing, or its value is the empty one
Missing(args, key, empty) == key \notin DOMAIN args \/ args[key] = empty

\* name or symbol
NameOr(args) == IF Missing(args, "name", "") THEN args.symbol ELSE args.name

\* the lines "Surge Count", "Max Surge" and "Recent Surge" of both reports:
\* the last two are printed when there is a surge, the recent one is surges[0]
SurgeLines(surges) ==
    [surge_count |-> Len(surges),
     max_surge |-> IF surges = <<>> THEN <<>>
                   ELSE <<PyMax(surges[1].return,
                                Tail([k \in 1..Len(surges) |-> surges[k].return]))>>,
     recent_surge |-> IF surges = <<>> THEN <<>>
                      ELSE <<[date |-> surges[1].date, return |-> surges[1].return]>>]

\* _format_single_analysis(symbol, name, result): the sections of the report
FormatSingleAnalysis(symbol, name, result) ==
    [title |-> <<name, symbol>>,
     basic |-> result.basic,
     surge |-> SurgeLines(result.surges),
     volume |-> result.volume,
     company |-> result.company]

\* the "Surge Frequency" rating
Rating(surge_count) ==
    IF surge_count >= 10 THEN "Very High"
    ELSE IF surge_count >= 5 THEN "High"
    ELSE IF surge_count >= 2 THEN "Medium"
    ELSE "Low"

\* _format_surge_summary(symbol, name, result, threshold)
FormatSurgeSummary(symbol, name, result, threshold) ==
    [title |-> <<name, symbol>>,
     current_price |-> result.basic.current_price,
     total_return |-> result.basic.total_return,
     threshold |-> threshold,
     surge |-> SurgeLines(result.surges),
     rating |-> Rating(Len(result.surges))]

\* a handler returns at once, having analysed nothing
Refuse(text) ==
    /\ cmp' = [results |-> <<>>, out |-> text]
    /\ stock_list' = <<>>
    /\ pos' = 0
    /\ trace' = <<>>
    /\ UNCHANGED <<bpc, results, report, returned, log>>

\* a handler returns after the analysis of the one security by its analyzer
Analysed(analyzer, result, out) ==
    /\ surge_threshold' = analyzer.surge_threshold
    /\ volume_threshold' = analyzer.volume_threshold
    /\ cmp' = out
    /\ stock_list' = <<>>
    /\ pos' = 0
    /\ trace' = HistFetches(1) \o InfoFetches(1, result)
    /\ UNCHANGED <<bpc, results, report, returned, log>>

\* _analyze_single_stock(args)
AnalyzeSingleStock(args) ==
    IF Missing(args, "symbol", "")
    THEN Refuse("missing_symbol") /\ UNCHANGED <<surge_threshold, volume_threshold>>
    ELSE \E analyzer \in {CleanSurgeAnalyzerNew} :
         \E result \in {CleanAnalyzeStock(hist, info, analyzer.surge_threshold,
                                          analyzer.volume_threshold)} :
            Analysed(analyzer, result,
                     IF result.kind # "result"
                     THEN [results |-> <<>>, out |-> "no_data"]
                     ELSE [results |-> <<>>, out |-> "analysis",
                           text |-> FormatSingleAnalysis(args.symbol, NameOr(args), result)])

\* _get_surge_summary(args): the analyzer's surge threshold is set to
\* args.get("surge_threshold", 5.0) before the analysis
GetSurgeSummary(args) ==
    LET threshold == DictGet(args, "surge_threshold", 5)
    IN IF Missing(args, "symbol", "")
       THEN Refuse("missing_symbol") /\ UNCHANGED <<surge_threshold, volume_threshold>>
       ELSE \E analyzer \in {[CleanSurgeAnalyzerNew EXCEPT !.surge_threshold = threshold]} :
            \E result \in {CleanAnalyzeStock(hist, info, analyzer.surge_threshold,
                                             analyzer.volume_threshold)} :
               Analysed(analyzer, result,
                        IF result.kind # "result"
                        THEN [results |-> <<>>, out |-> "no_data"]
                        ELSE [results |-> <<>>, out |-> "summary",
                              text |-> FormatSurgeSummary(args.symbol, NameOr(args),
                                                          result, threshold)])

\* a handler that loops over a list starts with a new analyzer, when it does
\* not refuse the request
ListAnalyzer ==
    LET analyzer == CleanSurgeAnalyzerNew
    IN IF bpc' = "serving"
       THEN UNCHANGED <<surge_threshold, volume_threshold>>
       ELSE /\ surge_threshold' = analyzer.surge_threshold
            /\ volume_threshold' = analyzer.volume_threshold

\* arguments or {}
ArgumentsOrEmpty(arguments) ==
    IF "kind" \in DOMAIN arguments THEN [it \in {} |-> ""] ELSE arguments

\* a dispatch whose last branch is a handler
HandlerOfElse(name) ==
    IF name = "get_surge_summary" THEN "_get_surge_summary"
    ELSE IF name = "compare_stocks" THEN "_compare_stocks"
    ELSE IF name = "batch_analyze_stocks" THEN "_batch_analyze_stocks"
    ELSE "_analyze_single_stock"

\* the handler a tool name is routed to, "" for none
HandlerOf(name) ==
    IF name = "analyze_single_stock" THEN "_analyze_single_stock"
    ELSE IF name = "get_surge_summary" THEN "_get_surge_summary"
    ELSE IF name = "compare_stocks" THEN "_compare_stocks"
    ELSE IF name = "batch_analyze_stocks" THEN "_batch_analyze_stocks"
    ELSE ""

\* handle_call_tool(name, arguments)
HandleCallTool(name, arguments) ==
    LET args == ArgumentsOrEmpty(arguments)
        handler == HandlerOf(name)
    IN /\ call' = [op |-> "tool", name |-> name, given |-> arguments,
                    arguments |-> args, handler |-> handler]
       /\ IF handler = "_analyze_single_stock" THEN AnalyzeSingleStock(args)
          ELSE IF handler = "_get_surge_summary" THEN GetSurgeSummary(args)
          ELSE IF handler = "_compare_stocks"
          THEN CompareStocks(DictGet(args, "stocks", <<>>)) /\ ListAnalyzer
          ELSE IF handler = "_batch_analyze_stocks"
          THEN BatchAnalyzeStocks(args) /\ ListAnalyzer
          ELSE Refuse("unknown_tool") /\ UNCHANGED <<surge_threshold, volume_threshold>>

\* the request before this one, when it was a get_surge_summary request that
\* supplied a surge threshold
LastRequest ==
    IF call.op = "tool" /\ call.handler = "_get_surge_summary"
          /\ "surge_threshold" \in DOMAIN call.arguments
    THEN [op |-> "get_surge_summary", surge_threshold |-> call.arguments.surge_threshold]
    ELSE NotCalled

\* a tool is requested of the server
CallTool ==
    /\ bpc = "serving"
    /\ prev' = LastRequest
    /\ \E request \in ToolRequests : HandleCallTool(request[1], request[2])
    /\ UNCHANGED <<hist, info, calls>>

\* analyze_stock(symbol, name, days) of a new UniversalSurgeAnalyzer, as main()
\* calls it: the bars of the last days are requested for the symbol, whatever
\* the symbol and the number of days are
CallAnalyzeStockOf ==
    /\ bpc = "serving"
    /\ prev' = LastRequest
    /\ \E result \in {AnalyzeStock(hist, info, DefaultSurgeThreshold,
                                   DefaultVolumeThreshold)} :
          /\ \E symbol \in CallSymbols, days \in CallDays :
                call' = [op |-> "analyze_stock", symbol |-> symbol, days |-> days,
                         ret |-> result]
          /\ trace' = HistFetches(1) \o InfoFetches(1, result)
    /\ surge_threshold' = DefaultSurgeThreshold
    /\ volume_threshold' = DefaultVolumeThreshold
    /\ cmp' = NoCompare
    /\ stock_list' = <<>>
    /\ pos' = 0
    /\ UNCHANGED <<hist, info, bpc, results, report, returned, log, calls>>

\* the server, and the data the providers hold for the security requested
SInit ==
    /\ hist \in ProviderAnswers
    /\ info = [kind |-> "ok", rows |-> <<[item |-> "industry", value |-> "Tech"]>>]
    /\ surge_threshold = DefaultSurgeThreshold
    /\ volume_threshold = DefaultVolumeThreshold
    /\ call = NotCalled
    /\ prev = NotCalled
    /\ ServerNew

SNext ==
    \/ CallTool
    \/ CallAnalyzeStockOf
    \/ CompareAnalysisReturns
    \/ ToolBatchAnalysisReturns

SpecServer == SInit /\ [][SNext]_vars

----------------------------------------------------------------------------
(* Claims about the detectors and the single-security analyzer *)

\* the surge list a finished call returned, when it returned one
ReturnedSurges ==
    IF call.op = "_analyze_surges" THEN call.ret
    ELSE IF call.op \in {"analyze_stock", "clean_analyze_stock"} /\ call.ret.kind = "result"
    THEN call.ret.surges
    ELSE <<>>

ReturnsSurges ==
    \/ call.op = "_analyze_surges"
    \/ call.op \in {"analyze_stock", "clean_analyze_stock"} /\ call.ret.kind = "result"

\* positions (from 2 on) whose day-over-day return is strictly above the threshold
StrictSurgeDays ==
    {i \in 2..Len(hist.bars) :
        (hist.bars[i].close - hist.bars[i - 1].close) * 100
            > surge_threshold * hist.bars[i - 1].close}

\* C1: a day at index i >= 1 is emitted as a surge event if and only if its
\* day-over-day return is strictly greater than the threshold: every surge list
\* returned (by the detector, by either analyzer) holds exactly one event for
\* each such day, carrying that day's return, and no other event.
C1_SurgeInclusionStrict ==
    ReturnsSurges =>
        LET ev == ReturnedSurges
        IN /\ Len(ev) = Cardinality(StrictSurgeDays)
           /\ \A i \in StrictSurgeDays :
                 \E k \in 1..Len(ev) :
                    /\ ev[k].date = hist.bars[i].date
                    /\ ev[k].return.num * hist.bars[i - 1].close
                         = (hist.bars[i].close - hist.bars[i - 1].close) * 100 * ev[k].return.den
           /\ \A k \in 1..Len(ev) :
                 \E i \in StrictSurgeDays : ev[k].date = hist.bars[i].date

\* closes 10, 10.6, 9 with threshold 5.0: one surge, at the second bar, return 6.0
C1_Witness ==
    /\ call.op = "_analyze_surges"
    /\ ColCloses(hist.bars) = <<100, 106, 90>>
    /\ surge_threshold = 5
    /\ Len(call.ret) = 1
    /\ call.ret[1].date = hist.bars[2].date
    /\ KeyEq(call.ret[1].return, Rat(6, 1))

\* positions (from Window + 1 on) whose volume is above the mean of the Window
\* preceding volumes times the multiplier
TrailingSpikeDays ==
    {i \in (Window + 1)..Len(hist.bars) :
        hist.bars[i].volume * Window
            > SumSeq([k \in 1..Window |-> hist.bars[i - Window - 1 + k].volume])
                * volume_threshold}

\* C2: a volume-spike event is emitted for index i if and only if i >= 10 and
\* volume[i] > mean(volume[i-10 .. i-1]) * volume_multiplier, and its
\* volume_ratio is volume[i] divided by that mean.
C2_TrailingWindowSpikes ==
    call.op = "_analyze_volume" =>
        LET ev == IF call.ret.kind = "value" THEN call.ret.spikes ELSE <<>>
        IN /\ \A i \in TrailingSpikeDays :
                 \E k \in 1..Len(ev) :
                    /\ ev[k].date = hist.bars[i].date
                    /\ ev[k].volume_ratio.num
                         * SumSeq([j \in 1..Window |-> hist.bars[i - Window - 1 + j].volume])
                         = hist.bars[i].volume * Window * ev[k].volume_ratio.den
           /\ \A k \in 1..Len(ev) :
                 \E i \in TrailingSpikeDays : ev[k].date = hist.bars[i].date
           /\ Len(ev) = Cardinality(TrailingSpikeDays)

\* C3: analyze_stock never raises to its caller; an empty bar set and a provider
\* (or analysis) error both give None.
C3_NeverRaises ==
    call.op \in {"analyze_stock", "clean_analyze_stock"} =>
        /\ call.ret.kind \in {"None", "result"}
        /\ (hist.kind = "error" \/ hist.bars = <<>>) => call.ret = None
        /\ (call.op = "analyze_stock" /\ HasBars
              /\ AnalyzeVolume(hist.bars, volume_threshold).kind = "raise") => call.ret = None

\* the provider raised and analyze_stock returned None, as it does for no bars
C3_Witness ==
    /\ call.op = "analyze_stock"
    /\ hist.kind = "error"
    /\ call.ret = AnalyzeStock([kind |-> "bars", bars |-> <<>>], info,
                               surge_threshold, volume_threshold)
    /\ call.ret = None

\* C10: the surge list returned by the detector, and placed in the analysis
\* result, is ordered by ascending date.
C10_SurgesChronological ==
    ReturnsSurges =>
        \A j, k \in 1..Len(ReturnedSurges) :
            j < k => ReturnedSurges[j].date < ReturnedSurges[k].date

\* C11: a bar series of fewer than 2 bars reaching the return computation
\* fails with InsufficientDataError: no analysis result is produced, and the
\* outcome differs from the one of an empty bar set.
C11_DegenerateRejected ==
    (call.op \in {"analyze_stock", "clean_analyze_stock"}
        /\ hist.kind = "bars" /\ Len(hist.bars) = 1) =>
        /\ call.ret.kind # "result"
        /\ call.ret = Raised("InsufficientDataError")

\* the company-info provider raised or returned an empty table
InfoFailed == info.kind = "error" \/ info.rows = <<>>

\* what the finished call of analyze_stock returns with the answer inf of the
\* company-info provider
WithInfo(inf) ==
    IF call.op = "analyze_stock"
    THEN AnalyzeStock(hist, inf, surge_threshold, volume_threshold)
    ELSE CleanAnalyzeStock(hist, inf, surge_threshold, volume_threshold)

C13_ShortSeriesNoSpikes ==
    (call.op = "_analyze_volume" /\ Len(hist.bars) <= Window) =>
        /\ call.ret.kind = "value"
        /\ call.ret.spikes = <<>>

\* C15: the trailing-window spike set and the global-average spike set are
\* distinct fields, and the spike count reported for the same bars is the same
\* population in the reporting variant and in the protocol-tool variant.
C15_VolumeMetricsApart ==
    (call.op = "analyze_stock" /\ call.ret.kind = "result") =>
        LET clean == CleanAnalyzeStock(hist, info, surge_threshold, volume_threshold)
        IN /\ clean.kind = "result"
           /\ Len(call.ret.volume.spikes) = clean.volume.spikes

\* C20: for n >= 2 bars exactly n-1 day-over-day returns are evaluated, none
\* for the first bar: no surge event carries the first bar's date, and every
\* surge event's date, price and volume are those of one bar at index >= 1.
C20_NoReturnForFirstBar ==
    /\ ReturnsSurges =>
          \A k \in 1..Len(ReturnedSurges) :
              /\ ReturnedSurges[k].date # hist.bars[1].date
              /\ \E i \in 2..Len(hist.bars) :
                    /\ ReturnedSurges[k].date = hist.bars[i].date
                    /\ ReturnedSurges[k].price = hist.bars[i].close
                    /\ ReturnedSurges[k].volume = hist.bars[i].volume
    /\ (call.op \in {"analyze_stock", "clean_analyze_stock"}
           /\ call.ret.kind = "result" /\ Len(hist.bars) >= 3) =>
          Len(call.ret.basic.volatility.std_of) = Len(hist.bars) - 1

\* closes 10.6, 9, 10: the one surge is the third bar, though the first bar
\* closed 6% above the last
C20_Witness ==
    /\ call.op = "clean_analyze_stock"
    /\ ColCloses(hist.bars) = <<106, 90, 100>>
    /\ surge_threshold = 5
    /\ call.ret.kind = "result"
    /\ Len(call.ret.surges) = 1
    /\ call.ret.surges[1].date = hist.bars[3].date
    /\ call.ret.surges[1].price = 100

----------------------------------------------------------------------------
(* Claims about the batch runs *)

\* a call of analyze_stock_list has returned and no other is running
BatchReturned == bpc = "idle" /\ calls > 0

\* one summary for each entry of l whose analysis returns a result, in order
ExpectedSummaries(l) ==
    LET ok == SelectSeq(l, LAMBDA e : MarketAnalysis(e.symbol).kind = "result")
    IN [k \in 1..Len(ok) |->
          CreateSummary(ok[k].symbol, ok[k].name, MarketAnalysis(ok[k].symbol))]

\* C4: the batch run processes every entry, never raises, and its result list
\* contains exactly one summary for each entry whose analysis returned a
\* result, in input order, and nothing for the others.
C4_PerItemIsolation ==
    BatchReturned =>
        /\ \A k \in 1..Len(stock_list) : \E j \in 1..Len(log) : log[j] = Event("end", k)
        /\ returned = ExpectedSummaries(stock_list)

\* C5: the list returned, and the rankings and industry aggregation reported,
\* by a call are computed only from the securities of that call's input list
\* and contain no summary produced by a previous call.
C5_NoStateAcrossRuns ==
    BatchReturned =>
        /\ Len(returned) <= Len(stock_list)
        /\ \A k \in 1..Len(returned) :
              \E j \in 1..Len(stock_list) : stock_list[j].symbol = returned[k].symbol
        /\ report.generated =>
              /\ Len(report.surge_ranking) <= Len(stock_list)
              /\ \A g \in 1..Len(report.industry) :
                    report.industry[g].count <= Len(stock_list)

EventsUpTo(e, j) == {i \in 1..j : log[i].ev = e}

\* C9: analyses start in input order, one at a time; the analysis of entry
\* k+1 starts only after that of entry k has finished and one delay has
\* elapsed; a run over a non-empty list takes exactly len(list)-1 delays, none
\* after the last entry.
C9_SequentialPacing ==
    /\ \A j \in 1..Len(log) :
          /\ Cardinality(EventsUpTo("start", j)) - Cardinality(EventsUpTo("end", j))
                \in {0, 1}
          /\ log[j].ev = "start" =>
                /\ log[j].k = Cardinality(EventsUpTo("start", j))
                /\ log[j].k > 1 =>
                      /\ j > 2
                      /\ log[j - 1].ev = "delay"
                      /\ log[j - 2] = Event("end", log[j].k - 1)
                      /\ Cardinality(EventsUpTo("delay", j)) = log[j].k - 1
          /\ log[j].ev = "end" => j > 1 /\ log[j - 1] = Event("start", log[j].k)
    /\ bpc = "analyzing" <=>
          Cardinality(EventsUpTo("start", Len(log)))
              = Cardinality(EventsUpTo("end", Len(log))) + 1
    /\ (BatchReturned /\ stock_list # <<>>) =>
          /\ Cardinality(EventsUpTo("delay", Len(log))) = Len(stock_list) - 1
          /\ Cardinality(EventsUpTo("start", Len(log))) = Len(stock_list)
          /\ log[Len(log)] = Event("end", Len(stock_list))

\* a run over three entries, the second of which has no result, has returned
\* after two delays
C9_Witness ==
    /\ BatchReturned
    /\ Len(stock_list) = 3
    /\ MarketAnalysis(stock_list[2].symbol) = None
    /\ Cardinality(EventsUpTo("delay", Len(log))) = 2
    /\ log[Len(log)] = Event("end", 3)

----------------------------------------------------------------------------
(* Claims about the summary report *)

Occurrences(x, xs) == Cardinality({k \in 1..Len(xs) : xs[k] = x})

IsPermutation(r, rs) ==
    /\ Len(r) = Len(rs)
    /\ \A k \in 1..Len(rs) : Occurrences(rs[k], r) = Occurrences(rs[k], rs)

\* no element of r comes before one of a larger key
Descending(r, Key(_)) ==
    \A i, j \in 1..Len(r) : i < j => ~KeyLt(Key(r[i]), Key(r[j]))

\* the elements of one key are in r in the order they have in rs
TiesInOrder(r, rs, Key(_)) ==
    \A k \in 1..Len(rs) :
        SelectSeq(r, LAMBDA x : KeyEq(Key(x), Key(rs[k])))
            = SelectSeq(rs, LAMBDA x : KeyEq(Key(x), Key(rs[k])))

SurgeCountKey(x) == Rat(x.surge_count, 1)
ReturnKey(x) == x.total_return
VolatilityKey(x) == x.volatility

Ranked(r, rs, Key(_)) ==
    IsPermutation(r, rs) /\ Descending(r, Key) /\ TiesInOrder(r, rs, Key)

\* C6: the rankings by surge_count, by total_return and by volatility are each
\* a permutation of all analysed securities in descending order of the key,
\* securities of equal key in their input order.
C6_RankingsSortedStable ==
    report.generated =>
        /\ Ranked(report.surge_ranking, results, SurgeCountKey)
        /\ Ranked(report.return_ranking, results, ReturnKey)
        /\ Ranked(report.volatility_ranking, results, VolatilityKey)

RECURSIVE SumReturnsOver(_)
SumReturnsOver(M) ==
    IF M = {} THEN Rat(0, 1)
    ELSE LET k == CHOOSE x \in M : TRUE
         IN RatAdd(results[k].total_return, SumReturnsOver(M \ {k}))

RECURSIVE SumSurgesOver(_)
SumSurgesOver(M) ==
    IF M = {} THEN 0
    ELSE LET k == CHOOSE x \in M : TRUE
         IN results[k].surge_count + SumSurgesOver(M \ {k})

\* the industry of a security's company profile, "unknown" when it has none
ProfileIndustry(symbol) ==
    LET company == MarketAnalysis(symbol).company
    IN IF "industry" \in DOMAIN company THEN company["industry"] ELSE "unknown"

\* C7: every analysed security belongs to exactly one industry group (its
\* profile's industry, or the unknown group); a group's count is its number of
\* members, avg_return the sum of their total returns divided by count,
\* avg_surge_count the sum of their surge counts divided by count; groups are
\* in descending order of avg_return.
C7_IndustryAggregation ==
    report.generated =>
        LET gs == report.industry
        IN /\ \A k \in 1..Len(results) :
                 Cardinality({g \in 1..Len(gs) :
                                 gs[g].industry = ProfileIndustry(results[k].symbol)}) = 1
           /\ \A g \in 1..Len(gs) :
                 LET M == {k \in 1..Len(results) :
                              ProfileIndustry(results[k].symbol) = gs[g].industry}
                 IN /\ gs[g].count = Cardinality(M)
                    /\ gs[g].count >= 1
                    /\ KeyEq(Rat(gs[g].avg_return.num * gs[g].count, gs[g].avg_return.den),
                             SumReturnsOver(M))
                    /\ KeyEq(Rat(gs[g].avg_surge_count.num * gs[g].count,
                                 gs[g].avg_surge_count.den),
                             Rat(SumSurgesOver(M), 1))
           /\ Descending(gs, LAMBDA g : g.avg_return)

\* Tech {10, 20} and unknown {5}: Tech, count 2, average 15, comes first, then
\* unknown, count 1, average 5
C7_Witness ==
    /\ report.generated
    /\ [k \in 1..Len(results) |-> results[k].symbol] = <<"A", "B", "C">>
    /\ Len(report.industry) = 2
    /\ report.industry[1].industry = "Tech"
    /\ report.industry[1].count = 2
    /\ KeyEq(report.industry[1].avg_return, Rat(15, 1))
    /\ report.industry[2].industry = "unknown"
    /\ report.industry[2].count = 1
    /\ KeyEq(report.industry[2].avg_return, Rat(5, 1))

InHighPotential(s) == s.surge_count >= 5 /\ KeyGt(s.total_return, Rat(10, 1))
InStableGrowth(s) == KeyLt(s.volatility, Rat(3, 1)) /\ KeyGt(s.total_return, Rat(5, 1))
InHighRisk(s) == KeyGt(s.volatility, Rat(8, 1)) \/ KeyLt(s.total_return, Rat(0 - 20, 1))

\* tier is the at most five top members, by Key, of the securities in In
TierOk(tier, In(_), Key(_)) ==
    LET M == {k \in 1..Len(results) : In(results[k])}
    IN /\ Len(tier) = (IF Cardinality(M) < 5 THEN Cardinality(M) ELSE 5)
       /\ \A k \in 1..Len(tier) :
             /\ In(tier[k])
             /\ Occurrences(tier[k], tier) <= Occurrences(tier[k], results)
       /\ Descending(tier, Key)
       /\ \A k \in M : \A j \in 1..Len(tier) :
             KeyLt(Key(tier[j]), Key(results[k])) =>
                 Occurrences(results[k], tier) = Occurrences(results[k], results)

\* C8: a security is in 'high potential' iff surge_count >= 5 and
\* total_return > 10, in 'stable growth' iff volatility < 3 and
\* total_return > 5, in 'high risk' iff volatility > 8 or total_return < -20;
\* each reported tier list has at most 5 members, the top members of the tier
\* by surge_count, total_return and volatility respectively, in descending order.
C8_TierLists ==
    report.generated =>
        /\ TierOk(report.high_potential, InHighPotential, SurgeCountKey)
        /\ TierOk(report.stable_stocks, InStableGrowth, ReturnKey)
        /\ TierOk(report.high_risk, InHighRisk, VolatilityKey)

----------------------------------------------------------------------------
(* Claims about the course of a batch or comparison run *)

\* what the end-of-run report says of the numbers analysed and requested
ReportedCounts ==
    IF {"analysed", "requested"} \subseteq DOMAIN report
    THEN <<report.analysed, report.requested>>
    ELSE <<>>

\* C14: every batch run, at its end, reports both the number of securities
\* successfully analysed and the number requested, the run in which no security
\* was analysed included.
C14_CountsReported ==
    BatchReturned =>
        ReportedCounts = <<Len(ExpectedSummaries(stock_list)), Len(stock_list)>>

Requests(e, k) == Cardinality({j \in 1..Len(trace) : trace[j] = Event(e, k)})

Running == bpc \in {"analyzing", "sleeping", "comparing", "batching"}

\* a run over the whole of stock_list has returned
RunOver ==
    \/ BatchReturned
    \/ bpc = "serving" /\ cmp.out \in {"insufficient", "comparison", "batch_failed", "batch"}

\* C17: in every batch or comparison run the history provider is invoked
\* exactly once for each entry of the input list and the company-info provider
\* at most once per entry, whatever the outcome; a failed entry is never
\* re-attempted.
C17_NoInternalRetry ==
    /\ \A j \in 1..Len(trace) :
          trace[j] = ReportEvent \/ trace[j].k \in 1..Len(stock_list)
    /\ \A k \in 1..Len(stock_list) :
          /\ Requests("hist", k) <= 1
          /\ Requests("info", k) <= 1
          /\ Running => Requests("hist", k) = (IF k <= pos THEN 1 ELSE 0)
          /\ RunOver => Requests("hist", k) = 1
          /\ (RunOver /\ MarketAnalysis(stock_list[k].symbol) = None) =>
                Requests("info", k) = 0

\* a batch run over three entries whose first has no result has returned:
\* three requests for bars, none of them repeated for the failed entry
C17_Witness ==
    /\ BatchReturned
    /\ Len(stock_list) = 3
    /\ MarketAnalysis(stock_list[1].symbol) = None
    /\ Requests("hist", 1) = 1
    /\ Requests("info", 1) = 0
    /\ Requests("hist", 2) + Requests("hist", 3) = 2

\* C18: in every batch run the rankings, industry aggregation and tier lists
\* are computed exactly once, only after every entry has been processed, and
\* they depend only on the summaries the run collected.
C18_RankingNotStreamed ==
    /\ bpc \in {"analyzing", "sleeping"} => Requests("report", 0) = 0
    /\ BatchReturned =>
          /\ Requests("report", 0) = 1
          /\ trace[Len(trace)] = ReportEvent
          /\ \A k \in 1..Len(stock_list) : \E j \in 1..Len(log) : log[j] = Event("end", k)
          /\ report = GenerateSummaryReport(ExpectedSummaries(stock_list))

AllProcessed ==
    \A k \in 1..Len(stock_list) : \E j \in 1..Len(log) : log[j] = Event("end", k)

\* C19: if every analysis eventually returns, analyze_stock_list eventually
\* returns after processing every entry; as long as the analysis of an entry
\* has not returned, no later entry is analysed, no ranking is produced and
\* the batch does not complete.
C19_TerminationAndStalling ==
    /\ (bpc \in {"analyzing", "sleeping"}) ~> (BatchReturned /\ AllProcessed)
    /\ [][(bpc = "analyzing" /\ log' # log) => log' = Append(log, Event("end", pos))]_vars
    /\ [][(bpc = "analyzing" /\ log' = log) =>
             /\ bpc' = "analyzing"
             /\ UNCHANGED <<stock_list, pos, results, report, returned, trace>>]_vars

\* the analysis of the second of three entries is awaited
C19_Witness ==
    /\ bpc = "analyzing"
    /\ Len(stock_list) = 3
    /\ pos = 2
    /\ log[Len(log)] = Event("start", 2)
    /\ Requests("hist", 3) = 0

----------------------------------------------------------------------------
(* Claims about the entry points and the tools of the protocol server *)

\* C21: analyze_stock called with an empty symbol and a negative number of
\* days raises ValueError or TypeError to the caller: no provider request is
\* made, and neither a result nor an absent value is returned.
C21_InvalidParametersRejected ==
    (call.op = "analyze_stock" /\ call.symbol = "" /\ call.days < 0) =>
        /\ call.ret.kind = "raise"
        /\ call.ret.exc \in {"ValueError", "TypeError"}
        /\ trace = <<>>

\* the last call made the providers' data be analysed: the thresholds are
\* those of the analyzer that did it
AnalysisExecuted == call.op \in {"tool", "analyze_stock"} /\ trace # <<>>

\* C22: a new analyzer has surge_threshold 5.0 and volume_threshold 2.0, and
\* in every analysis executed through an entry point (get_surge_summary with a
\* surge_threshold of the caller included) the surge threshold in effect is
\* strictly positive and below 100 and the volume threshold strictly between
\* 0 and 10.
C22_ThresholdsInRange ==
    /\ CleanSurgeAnalyzerNew = [surge_threshold |-> 5, volume_threshold |-> 2]
    /\ AnalysisExecuted =>
          /\ 0 < surge_threshold /\ surge_threshold < 100
          /\ 0 < volume_threshold /\ volume_threshold < 10

\* a run of compare_stocks is over
ComparisonOver == bpc = "serving" /\ cmp.out \in {"need_two", "insufficient", "comparison"}

\* one item for each entry of l whose analysis returns a result, in order
ExpectedRows(l) ==
    LET ok == SelectSeq(l, LAMBDA e : MarketAnalysis(e.symbol).kind = "result")
    IN [k \in 1..Len(ok) |->
          [symbol |-> ok[k].symbol, name |-> ok[k].name, data |-> MarketAnalysis(ok[k].symbol)]]

\* the comparison reported has one row for each successfully analysed security,
\* with its symbol and name, in input order, and is built from 2 results or more
RowsOfComparison ==
    cmp.out = "comparison" =>
        LET rows == ExpectedRows(stock_list)
        IN /\ cmp.results = rows
           /\ Len(rows) >= 2
           /\ Len(cmp.text.rows) = Len(rows)
           /\ \A k \in 1..Len(rows) :
                 /\ cmp.text.rows[k].symbol = rows[k].symbol
                 /\ cmp.text.rows[k].name = rows[k].name
                 /\ cmp.text.rows[k].total_return = rows[k].data.basic.total_return
                 /\ cmp.text.rows[k].surges = Len(rows[k].data.surges)

\* C23, as stated: compare_stocks returns one row per successfully analysed
\* security, paired with its symbol and name, in input order; it returns
\* "Comparison failed: Insufficient valid data" whenever fewer than 2 of the
\* requested securities yield a result, and never reports a comparison built
\* from fewer than 2 results.
C23_CompareRowsOrInsufficient ==
    ComparisonOver =>
        /\ RowsOfComparison
        /\ Len(ExpectedRows(stock_list)) < 2 => cmp.out = "insufficient"

\* C23, corrected: the same for a request of 2 securities or more; a request
\* of fewer than 2 is refused with "Error: Need at least 2 stocks for
\* comparison" before any analysis.
C23_CompareRowsOfTwoOrMore ==
    ComparisonOver =>
        /\ RowsOfComparison
        /\ (Len(stock_list) >= 2 /\ Len(ExpectedRows(stock_list)) < 2) =>
              cmp.out = "insufficient"
        /\ (Len(stock_list) >= 2 /\ Len(ExpectedRows(stock_list)) >= 2) =>
              cmp.out = "comparison"
        /\ Len(stock_list) < 2 => (cmp.out = "need_two" /\ trace = <<>>)

\* three securities were compared, the second without data: two rows, the
\* first and the third, in that order
C23_Witness ==
    /\ ComparisonOver
    /\ [k \in 1..Len(stock_list) |-> stock_list[k].symbol] = <<"A", "N", "B">>
    /\ cmp.out = "comparison"
    /\ [k \in 1..Len(cmp.text.rows) |-> cmp.text.rows[k].symbol] = <<"A", "B">>
    /\ cmp.text.rows[2].name = "nB"

\* the tools handle_list_tools publishes, each with the handler of its own
PublishedTools ==
    {"analyze_single_stock", "get_surge_summary", "compare_stocks", "batch_analyze_stocks"}

OwnHandler ==
    [analyze_single_stock |-> "_analyze_single_stock",
     get_surge_summary |-> "_get_surge_summary",
     compare_stocks |-> "_compare_stocks",
     batch_analyze_stocks |-> "_batch_analyze_stocks"]

\* the kinds of text each handler returns, "none" while it has not returned
HandlerOutputs ==
    [_analyze_single_stock |-> {"missing_symbol", "no_data", "analysis"},
     _get_surge_summary |-> {"missing_symbol", "no_data", "summary"},
     _compare_stocks |-> {"none", "need_two", "insufficient", "comparison"},
     _batch_analyze_stocks |-> {"none", "custom_needs_list", "invalid_preset",
                                "batch_failed", "batch_exception", "batch"}]

\* C24: handle_call_tool routes each of the four published tools to its own
\* handler, missing arguments being passed as an empty mapping, and raises
\* ValueError for every other tool name: no handler is invoked and no
\* provider is called.
C24_DispatchTotalAndClosed ==
    call.op = "tool" =>
        /\ call.given = None => DOMAIN call.arguments = {}
        /\ call.given # None => call.arguments = call.given
        /\ call.name \in PublishedTools =>
              /\ call.handler = OwnHandler[call.name]
              /\ cmp.out \in HandlerOutputs[call.handler]
        /\ call.name \notin PublishedTools =>
              /\ call.handler = ""
              /\ cmp.out = "unknown_tool"
              /\ bpc = "serving"
              /\ trace = <<>>

\* a tool that is not published was requested for a security that has data
C24_Witness ==
    /\ call.op = "tool"
    /\ call.name = "analyze_stock"
    /\ call.given = [symbol |-> "A"]
    /\ hist.kind = "bars" /\ Len(hist.bars) = MaxToolBars
    /\ cmp.out = "unknown_tool"
    /\ trace = <<>>

\* the error text owed to the request of the last call, "" when it is valid
ErrorOwed ==
    LET args == call.arguments
        preset == IF "preset" \in DOMAIN args THEN args.preset ELSE ""
    IN CASE call.handler \in {"_analyze_single_stock", "_get_surge_summary"} ->
               IF "symbol" \notin DOMAIN args THEN "missing_symbol"
               ELSE IF args.symbol = "" THEN "missing_symbol"
               ELSE ""
         [] call.handler = "_compare_stocks" ->
               IF "stocks" \notin DOMAIN args THEN "need_two"
               ELSE IF Len(args.stocks) < 2 THEN "need_two"
               ELSE ""
         [] call.handler = "_batch_analyze_stocks" ->
               IF preset \in {"popular", "tech"} THEN ""
               ELSE IF preset # "custom" THEN "invalid_preset"
               ELSE IF "custom_stocks" \notin DOMAIN args THEN "custom_needs_list"
               ELSE IF args.custom_stocks = <<>> THEN "custom_needs_list"
               ELSE ""
         [] OTHER -> ""

\* C25: when the request of a tool is invalid (symbol missing or empty for
\* analyze_single_stock and get_surge_summary, fewer than 2 stocks for
\* compare_stocks, preset custom with an empty list or a preset outside
\* popular, tech and custom for batch_analyze_stocks), the handler returns
\* its error text and neither provider is called.
C25_ValidationBeforeProviders ==
    (call.op = "tool" /\ ErrorOwed # "") =>
        /\ cmp.out = ErrorOwed
        /\ bpc = "serving"
        /\ trace = <<>>

\* the analysis of a security that has data was requested with an empty symbol
C25_Witness ==
    /\ call.op = "tool"
    /\ call.name = "analyze_single_stock"
    /\ call.given = [symbol |-> ""]
    /\ hist.kind = "bars" /\ Len(hist.bars) = MaxToolBars
    /\ cmp.out = "missing_symbol"
    /\ trace = <<>>

\* the surge threshold the last request is owed: the one it supplied to
\* get_surge_summary, the default otherwise
ThresholdOwed ==
    IF call.handler = "_get_surge_summary" /\ "surge_threshold" \in DOMAIN call.arguments
    THEN call.arguments.surge_threshold
    ELSE DefaultSurgeThreshold

\* the request analysed with the thresholds owed, whatever was requested before
AnalysedWithOwnThresholds ==
    (call.op = "tool" /\ trace # <<>>) =>
        /\ surge_threshold = ThresholdOwed
        /\ volume_threshold = DefaultVolumeThreshold
        /\ cmp.out \in {"analysis", "summary"} =>
              \E result \in {CleanAnalyzeStock(hist, info, ThresholdOwed,
                                               DefaultVolumeThreshold)} :
                 /\ cmp.text.surge = SurgeLines(result.surges)
                 /\ cmp.out = "summary" => cmp.text.threshold = ThresholdOwed
                 /\ cmp.out = "analysis" => cmp.text.volume = result.volume

\* C26: a surge_threshold supplied to one get_surge_summary request affects
\* that request only: every later analyze_single_stock, compare_stocks and
\* batch_analyze_stocks request, and every later get_surge_summary request
\* without a threshold, is analysed with surge threshold 5.0 and volume
\* threshold 2.0, and the analysis of a security leaves the thresholds of its
\* analyzer as they are.
C26_NoThresholdLeak ==
    /\ []AnalysedWithOwnThresholds
    /\ [][(bpc \in {"comparing", "batching"}) =>
             (surge_threshold' = surge_threshold /\ volume_threshold' = volume_threshold)]_vars

\* a security with a +4% day is analysed right after a summary of it with
\* threshold 3: the day is no surge
C26_Witness ==
    /\ prev = [op |-> "get_surge_summary", surge_threshold |-> 3]
    /\ call.op = "tool"
    /\ call.handler = "_analyze_single_stock"
    /\ ColCloses(hist.bars) = <<100, 104>>
    /\ cmp.out = "analysis"
    /\ cmp.text.surge.surge_count = 0
    /\ surge_threshold = DefaultSurgeThreshold

\* C27: for every non-empty bar series with positive closing prices and
\* non-negative volumes, zero-volume days included (ten zero-volume bars
\* followed by a bar with positive volume, or volumes that are all zero),
\* UniversalSurgeAnalyzer.analyze_stock returns a present result; it returns
\* an absent one only when the provider returns no bars or fails.
C27_ValidDataYieldsResult ==
    call.op = "analyze_stock" => (call.ret.kind = "result" <=> HasBars)

\* the dates of the bars go up strictly
StrictlyAscending(bars) == \A k \in 1..(Len(bars) - 1) : bars[k].date < bars[k + 1].date

SurgeDates(r) == {r.surges[k].date : k \in 1..Len(r.surges)}

\* the results u and c of the two variants tell the same surges and prices
Agree(u, c) ==
    /\ u.kind = "result" /\ c.kind = "result"
    /\ SurgeDates(u) = SurgeDates(c)
    /\ Len(u.surges) = Len(c.surges)
    /\ u.basic.total_return = c.basic.total_return
    /\ u.basic.current_price = c.basic.current_price
    /\ u.basic.min_price = c.basic.min_price
    /\ u.basic.max_price = c.basic.max_price

\* what the last call returned, and what the other variant returns for the
\* same answers of the providers and the same thresholds
OfUniversal ==
    IF call.op = "analyze_stock" THEN call.ret
    ELSE AnalyzeStock(hist, info, surge_threshold, volume_threshold)

OfClean ==
    IF call.op = "clean_analyze_stock" THEN call.ret
    ELSE CleanAnalyzeStock(hist, info, surge_threshold, volume_threshold)

\* C28: for every strictly ascending bar series and the same surge
\* threshold, UniversalSurgeAnalyzer and CleanSurgeAnalyzer produce the same
\* set of surge dates (the same surge_count), the same total return and the
\* same current, minimum and maximum price.
C28_VariantsAgree ==
    (call.op \in {"analyze_stock", "clean_analyze_stock"}
        /\ HasBars /\ StrictlyAscending(hist.bars)) =>
        \E u \in {OfUniversal} : \E c \in {OfClean} : Agree(u, c)

\* the positions of the surge days of the bars, by the claim's definition
SurgePositions(bars, threshold) ==
    {k \in 2..Len(bars) :
        (bars[k].close - bars[k - 1].close) * 100 > threshold * bars[k - 1].close}

\* the lines "Recent Surge" and "Max Surge" of the text returned: the surge
\* of the latest date, and the largest return of all surges
RecentAndMaxLines ==
    LET S == SurgePositions(hist.bars, ThresholdOwed)
        closes == ColCloses(hist.bars)
        latest == CHOOSE k \in S : \A j \in S : hist.bars[j].date <= hist.bars[k].date
        lines == cmp.text.surge
    IN /\ lines.surge_count = Cardinality(S)
       /\ S = {} => (lines.recent_surge = <<>> /\ lines.max_surge = <<>>)
       /\ S # {} =>
             /\ lines.recent_surge[1].date = hist.bars[latest].date
             /\ KeyEq(lines.recent_surge[1].return, DailyReturn(closes, latest))
             /\ \E k \in S : KeyEq(lines.max_surge[1], DailyReturn(closes, k))
             /\ \A k \in S : ~KeyLt(lines.max_surge[1], DailyReturn(closes, k))

\* C29: the surges returned by CleanSurgeAnalyzer are in descending date
\* order, so that the "Recent Surge" line of analyze_single_stock and of
\* get_surge_summary reports the surge of the latest date, and "Max Surge"
\* the largest return among all surges.
C29_RecentSurgeFirst ==
    (call.op = "tool" /\ cmp.out \in {"analysis", "summary"}) =>
        /\ \E result \in {CleanAnalyzeStock(hist, info, ThresholdOwed,
                                              DefaultVolumeThreshold)} :
              /\ Len(result.surges) = Cardinality(SurgePositions(hist.bars, ThresholdOwed))
              /\ \A j, k \in 1..Len(result.surges) :
                    j < k => result.surges[j].date > result.surges[k].date
        /\ RecentAndMaxLines

\* a summary of a security that rose by 11.1% on 9 January and by 4% on
\* 10 January, with threshold 3: the recent surge is the smaller one
C29_Witness ==
    /\ call.op = "tool"
    /\ cmp.out = "summary"
    /\ ThresholdOwed = 3
    /\ ColCloses(hist.bars) = <<90, 100, 104>>
    /\ cmp.text.surge.surge_count = 2
    /\ cmp.text.surge.recent_surge[1].date = 3
    /\ KeyEq(cmp.text.surge.recent_surge[1].return, Rat(4, 1))
    /\ KeyEq(cmp.text.surge.max_surge[1], Rat(100, 9))

\* a run of the batch_analyze_stocks tool over a stock list is over
BatchToolOver == bpc = "serving" /\ cmp.out \in {"batch_failed", "batch_exception", "batch"}

\* C30: no average of the batch layer is divided by zero, whatever the input
\* list (the empty list and a list whose analyses all fail included): every
\* industry group has a count of at least 1 when its sums are divided, the
\* summary report is skipped when the result list is empty, and
\* _format_batch_analysis is only given a non-empty result list, a batch of
\* the tool whose analyses all fail returning "Batch analysis failed".
C30_NoDivisionByZero ==
    /\ report.generated =>
          /\ results # <<>>
          /\ report.industry # <<>>
          /\ \A g \in 1..Len(report.industry) :
                /\ report.industry[g].count >= 1
                /\ report.industry[g].avg_return.den # 0
                /\ report.industry[g].avg_surge_count.den # 0
    /\ (BatchReturned /\ returned = <<>>) => ~report.generated
    /\ BatchToolOver =>
          /\ cmp.out # "batch_exception"
          /\ cmp.out = "batch_failed" <=> cmp.results = <<>>
          /\ cmp.out = "batch" =>
                /\ cmp.text.total_stocks = Len(cmp.results)
                /\ cmp.text.total_stocks >= 1
                /\ cmp.text.avg_return.den # 0
                /\ cmp.text.avg_surges.den # 0

\* a batch of the tool over two securities without data has returned
C30_Witness ==
    /\ BatchToolOver
    /\ Len(stock_list) = 2
    /\ \A k \in 1..2 : MarketAnalysis(stock_list[k].symbol) = None
    /\ Requests("hist", 2) = 1
    /\ cmp.out = "batch_failed"

====
